---- MODULE Spec2Model ----
(***************************************************************************)
(* Model of the kernel paging unit of src/main.c: proc_create_vm, vm_read, *)
(* vm_write and proc_exit_vm acting on one struct Kernel.                  *)
(*                                                                         *)
(* C arrays are modelled as functions over 0..n-1, C flags (running,       *)
(* occupied_pages, present) as the integers 0 and 1, as in the source.     *)
(* Every call is one step; the caller then takes its result (Return) or,   *)
(* after a successful vm_write, reads the range back (ReadBack).           *)
(*                                                                         *)
(* Spec explores every argument of every operation with the bytes of space *)
(* left as initialised; SpecData explores the contents of space for        *)
(* processes of three sizes.                                               *)
(***************************************************************************)
EXTENDS Integers, FiniteSets, Sequences, TLC

(* The configuration globals, which main sets to 8192, 512, 32 and 8,      *)
(* scaled down: 3 frames of 2 bytes, address spaces of up to 3 pages,      *)
(* 2 process slots.                                                        *)
KERNEL_SPACE_SIZE == 6
VIRTUAL_SPACE_SIZE == 6
PAGE_SIZE == 2
MAX_PROCESS_NUM == 2
(* Content of a caller buffer position that no memcpy has written.         *)
Untouched == -1

Pids == 0 .. MAX_PROCESS_NUM - 1
NumFrames == KERNEL_SPACE_SIZE \div PAGE_SIZE
Frames == 0 .. NumFrames - 1
(* The byte values of the model.                                           *)
Bytes == {0, 1}

(* Arguments the callers try: every size from 0 to one past the limit,     *)
(* every range <<addr, len>> from addr -1 and len 0 up to an end one past  *)
(* the largest address space.                                              *)
SizeArgs == 0 .. VIRTUAL_SPACE_SIZE + 1
RangeArgs == {r \in (-1 .. VIRTUAL_SPACE_SIZE) \X (0 .. VIRTUAL_SPACE_SIZE + 1) :
                r[1] + r[2] <= VIRTUAL_SPACE_SIZE + 1}

(* struct Kernel: running, mm, occupied_pages, allocated_pages, space.     *)
(* The caller: call is the call that has returned and whose result the     *)
(* caller holds (Idle between calls), ret its return value, buf the        *)
(* caller's buffer after it, wrote the buffer of the successful vm_write   *)
(* that a read-back follows. fault: a null page table was dereferenced.    *)
(* copies lists, in order, the page-table entries the call visited and the *)
(* memcpy it made for each; fresh is the set of pages the call mapped.     *)
VARIABLES running, mm, occupied_pages, allocated_pages, space,
          call, ret, buf, wrote, fault, copies, fresh

kernel == <<running, mm, occupied_pages, allocated_pages, space>>
vars == <<running, mm, occupied_pages, allocated_pages, space,
          call, ret, buf, wrote, fault, copies, fresh>>

(* A null page_table pointer, and a page table of n entries.               *)
NULL == [null |-> 1, ptes |-> <<>>]
UnmappedPTE == [PFN |-> -1, present |-> 0]

(* Mutant: the page table is one entry short.                              *)
NewPageTable_Short(n) == [null |-> 0, ptes |-> [i \in 0 .. n - 2 |-> UnmappedPTE]]

NewPageTable(n) == [null |-> 0, ptes |-> [i \in 0 .. n - 1 |-> UnmappedPTE]]

(* Mutant: size / PAGE_SIZE + 1, one page too many for whole pages.        *)
NoOfPages_Floor(size) == size \div PAGE_SIZE + 1

(* (size - 1) / PAGE_SIZE + 1 for size > 0.                                *)
NoOfPages(size) == (size - 1) \div PAGE_SIZE + 1

Min(S) == CHOOSE x \in S : \A y \in S : x <= y

Call(op, pid, addr, size) == [op |-> op, pid |-> pid, addr |-> addr, size |-> size]
NoBuf == [k \in {} |-> Untouched]
Idle == Call("none", -1, 0, 0)

Init ==
    /\ running = [p \in Pids |-> 0]
    /\ mm = [p \in Pids |-> [size |-> 0, page_table |-> NULL]]
    /\ occupied_pages = [j \in Frames |-> 0]
    /\ allocated_pages = 0
    /\ space = [a \in 0 .. KERNEL_SPACE_SIZE - 1 |-> 0]
    /\ call = Idle
    /\ ret = 0
    /\ buf = NoBuf
    /\ wrote = NoBuf
    /\ fault = FALSE
    /\ copies = <<>>
    /\ fresh = {}

(* Mutant: the scan has no break and ends on the highest free slot.        *)
FreeSlot_Last(run) ==
    IF \E i \in Pids : run[i] = 0
    THEN CHOOSE i \in Pids : run[i] = 0 /\ \A k \in Pids : run[k] = 0 => k <= i
    ELSE -1

(* The slot scan of proc_create_vm: lowest i with !running[i], else -1.    *)
FreeSlot(run) ==
    IF \E i \in Pids : run[i] = 0 THEN Min({i \in Pids : run[i] = 0}) ELSE -1

(* Mutant: no admission check against the kernel space.                    *)
CreateFails_NoAdmission(size) ==
    \/ 0 >= size
    \/ size > VIRTUAL_SPACE_SIZE
    \/ FreeSlot(running) = -1

(* Mutant: size >= VIRTUAL_SPACE_SIZE rejects the largest legal size.      *)
CreateFails_OffByOne(size) ==
    \/ 0 >= size
    \/ size >= VIRTUAL_SPACE_SIZE
    \/ allocated_pages + NoOfPages(size) > KERNEL_SPACE_SIZE \div PAGE_SIZE
    \/ FreeSlot(running) = -1

(* The three early returns of proc_create_vm.                              *)
CreateFails(size) ==
    \/ 0 >= size
    \/ size > VIRTUAL_SPACE_SIZE
    \/ allocated_pages + NoOfPages(size) > KERNEL_SPACE_SIZE \div PAGE_SIZE
    \/ FreeSlot(running) = -1

proc_create_vm(size) ==
    /\ ~fault
    /\ call' = Call("proc_create_vm", -1, 0, size)
    /\ buf' = NoBuf
    /\ copies' = <<>>
    /\ fresh' = {}
    /\ UNCHANGED <<occupied_pages, space, fault>>
    /\ IF CreateFails(size)
       THEN /\ ret' = -1
            /\ UNCHANGED <<running, mm, allocated_pages>>
       ELSE LET pid == FreeSlot(running)
                n == NoOfPages(size)
            IN /\ allocated_pages' = allocated_pages + n
               /\ running' = [running EXCEPT ![pid] = 1]
               /\ mm' = [mm EXCEPT ![pid] = [size |-> size, page_table |-> NewPageTable(n)]]
               /\ ret' = pid

(* Mutant: the scan has no break and ends on the highest free frame.       *)
FirstFit_Last(occ) ==
    IF \E j \in Frames : occ[j] = 0
    THEN CHOOSE j \in Frames : occ[j] = 0 /\ \A k \in Frames : occ[k] = 0 => k <= j
    ELSE -1

(* The first-fit scan of vm_read / vm_write: lowest j with                 *)
(* !occupied_pages[j], else -1.                                            *)
FirstFit(occ) ==
    IF \E j \in Frames : occ[j] = 0 THEN Min({j \in Frames : occ[j] = 0}) ELSE -1

(* Mutant: the scan forgets occupied_pages[j] = 1.                         *)
MapPage_NoMark(s, i) ==
    IF s.ptes[i].present = 0
    THEN LET pfn == FirstFit(s.occ)
         IN IF pfn = -1
            THEN [s EXCEPT !.ret = -1]
            ELSE [s EXCEPT !.ptes[i] = [PFN |-> pfn, present |-> 1],
                           !.fresh = s.fresh \cup {i}]
    ELSE s

(* Mutant: the present test is missing, every visit takes a new frame.     *)
MapPage_Remap(s, i) ==
    LET pfn == FirstFit(s.occ)
    IN IF pfn = -1
       THEN [s EXCEPT !.ret = -1]
       ELSE [s EXCEPT !.occ[pfn] = 1,
                      !.ptes[i] = [PFN |-> pfn, present |-> 1],
                      !.fresh = s.fresh \cup {i}]

(* Mutant: mapping a page clears the bytes of the frame it takes.          *)
MapPage_Zero(s, i) ==
    IF s.ptes[i].present = 0
    THEN LET pfn == FirstFit(s.occ)
         IN IF pfn = -1
            THEN [s EXCEPT !.ret = -1]
            ELSE [s EXCEPT !.occ[pfn] = 1,
                           !.ptes[i] = [PFN |-> pfn, present |-> 1],
                           !.fresh = s.fresh \cup {i},
                           !.space = [a \in DOMAIN s.space |->
                                         IF a \div PAGE_SIZE = pfn THEN 0 ELSE s.space[a]]]
    ELSE s

(* Lazy mapping of page i (the body of `if (!ptes[i].present)`): s is the  *)
(* loop state; pfn = -1 makes the caller return -1.                        *)
MapPage(s, i) ==
    IF s.ptes[i].present = 0
    THEN LET pfn == FirstFit(s.occ)
         IN IF pfn = -1
            THEN [s EXCEPT !.ret = -1]
            ELSE [s EXCEPT !.occ[pfn] = 1,
                           !.ptes[i] = [PFN |-> pfn, present |-> 1],
                           !.fresh = s.fresh \cup {i}]
    ELSE s

(* memcpy(b + boff, sp + soff, n) into the caller buffer b.                *)
CopyOut(b, boff, sp, soff, n) ==
    [k \in DOMAIN b |-> IF boff <= k /\ k < boff + n THEN sp[soff + (k - boff)] ELSE b[k]]

(* memcpy(sp + soff, b + boff, n) into the physical space sp.              *)
CopyIn(sp, soff, b, boff, n) ==
    [a \in DOMAIN sp |-> IF soff <= a /\ a < soff + n THEN b[boff + (a - soff)] ELSE sp[a]]

(* One memcpy of n bytes between caller-buffer offset boff and physical    *)
(* offset poff, made for page i, whose entry holds pfn.                    *)
Copy(i, pfn, boff, poff, n) == [page |-> i, pfn |-> pfn, boff |-> boff, poff |-> poff, n |-> n]

(* The copy of one iteration of vm_read's loop, page i already mapped.     *)
ReadPage(s, i, start, end, start_offset, end_offset, size) ==
    LET pfn == s.ptes[i].PFN
    IN IF start = end
       THEN [s EXCEPT !.buf = CopyOut(s.buf, 0, s.space, PAGE_SIZE * pfn + start_offset, size),
                      !.copies = Append(s.copies, Copy(i, pfn, 0, PAGE_SIZE * pfn + start_offset, size))]
       ELSE IF i = start
       THEN [s EXCEPT !.buf = CopyOut(s.buf, 0, s.space, PAGE_SIZE * pfn + start_offset,
                                      PAGE_SIZE - start_offset),
                      !.copies = Append(s.copies, Copy(i, pfn, 0, PAGE_SIZE * pfn + start_offset,
                                                       PAGE_SIZE - start_offset)),
                      !.curr = s.curr + (PAGE_SIZE - start_offset)]
       ELSE IF i = end
       THEN [s EXCEPT !.buf = CopyOut(s.buf, s.curr, s.space, PAGE_SIZE * pfn, end_offset),
                      !.copies = Append(s.copies, Copy(i, pfn, s.curr, PAGE_SIZE * pfn, end_offset))]
       ELSE [s EXCEPT !.buf = CopyOut(s.buf, s.curr, s.space, PAGE_SIZE * pfn, PAGE_SIZE),
                      !.copies = Append(s.copies, Copy(i, pfn, s.curr, PAGE_SIZE * pfn, PAGE_SIZE)),
                      !.curr = s.curr + PAGE_SIZE]

(* Mutant: the memcpy of the first page of a multi-page write has count    *)
(* PAGE_SIZE, from start_offset on.                                        *)
WritePage_FullFirst(s, i, start, end, start_offset, end_offset, size) ==
    LET pfn == s.ptes[i].PFN
    IN IF start = end
       THEN [s EXCEPT !.space = CopyIn(s.space, PAGE_SIZE * pfn + start_offset, s.buf, 0, size),
                      !.copies = Append(s.copies, Copy(i, pfn, 0, PAGE_SIZE * pfn + start_offset, size))]
       ELSE IF i = start
       THEN [s EXCEPT !.space = CopyIn(s.space, PAGE_SIZE * pfn + start_offset, s.buf, 0, PAGE_SIZE),
                      !.copies = Append(s.copies, Copy(i, pfn, 0, PAGE_SIZE * pfn + start_offset,
                                                       PAGE_SIZE)),
                      !.curr = s.curr + (PAGE_SIZE - start_offset)]
       ELSE IF i = end
       THEN [s EXCEPT !.space = CopyIn(s.space, PAGE_SIZE * pfn, s.buf, s.curr, end_offset),
                      !.copies = Append(s.copies, Copy(i, pfn, s.curr, PAGE_SIZE * pfn, end_offset))]
       ELSE [s EXCEPT !.space = CopyIn(s.space, PAGE_SIZE * pfn, s.buf, s.curr, PAGE_SIZE),
                      !.copies = Append(s.copies, Copy(i, pfn, s.curr, PAGE_SIZE * pfn, PAGE_SIZE)),
                      !.curr = s.curr + PAGE_SIZE]

(* Mutant: the physical offset is taken from the page index, not the PFN.  *)
WritePage_ByIndex(s, i, start, end, start_offset, end_offset, size) ==
    IF start = end
    THEN [s EXCEPT !.space = CopyIn(s.space, PAGE_SIZE * i + start_offset, s.buf, 0, size),
                   !.copies = Append(s.copies, Copy(i, i, 0, PAGE_SIZE * i + start_offset, size))]
    ELSE IF i = start
    THEN [s EXCEPT !.space = CopyIn(s.space, PAGE_SIZE * i + start_offset, s.buf, 0,
                                    PAGE_SIZE - start_offset),
                   !.copies = Append(s.copies, Copy(i, i, 0, PAGE_SIZE * i + start_offset,
                                                    PAGE_SIZE - start_offset)),
                   !.curr = s.curr + (PAGE_SIZE - start_offset)]
    ELSE IF i = end
    THEN [s EXCEPT !.space = CopyIn(s.space, PAGE_SIZE * i, s.buf, s.curr, end_offset),
                   !.copies = Append(s.copies, Copy(i, i, s.curr, PAGE_SIZE * i, end_offset))]
    ELSE [s EXCEPT !.space = CopyIn(s.space, PAGE_SIZE * i, s.buf, s.curr, PAGE_SIZE),
                   !.copies = Append(s.copies, Copy(i, i, s.curr, PAGE_SIZE * i, PAGE_SIZE)),
                   !.curr = s.curr + PAGE_SIZE]

(* The copy of one iteration of vm_write's loop, page i already mapped.    *)
WritePage(s, i, start, end, start_offset, end_offset, size) ==
    LET pfn == s.ptes[i].PFN
    IN IF start = end
       THEN [s EXCEPT !.space = CopyIn(s.space, PAGE_SIZE * pfn + start_offset, s.buf, 0, size),
                      !.copies = Append(s.copies, Copy(i, pfn, 0, PAGE_SIZE * pfn + start_offset, size))]
       ELSE IF i = start
       THEN [s EXCEPT !.space = CopyIn(s.space, PAGE_SIZE * pfn + start_offset, s.buf, 0,
                                       PAGE_SIZE - start_offset),
                      !.copies = Append(s.copies, Copy(i, pfn, 0, PAGE_SIZE * pfn + start_offset,
                                                       PAGE_SIZE - start_offset)),
                      !.curr = s.curr + (PAGE_SIZE - start_offset)]
       ELSE IF i = end
       THEN [s EXCEPT !.space = CopyIn(s.space, PAGE_SIZE * pfn, s.buf, s.curr, end_offset),
                      !.copies = Append(s.copies, Copy(i, pfn, s.curr, PAGE_SIZE * pfn, end_offset))]
       ELSE [s EXCEPT !.space = CopyIn(s.space, PAGE_SIZE * pfn, s.buf, s.curr, PAGE_SIZE),
                      !.copies = Append(s.copies, Copy(i, pfn, s.curr, PAGE_SIZE * pfn, PAGE_SIZE)),
                      !.curr = s.curr + PAGE_SIZE]

(* for (i = start; i <= end; ++i) of vm_read; ret = 0 at the end, -1 when  *)
(* the scan finds no frame (what was mapped and copied so far stays).      *)
RECURSIVE ReadLoop(_, _, _, _, _, _, _)
ReadLoop(s, i, start, end, start_offset, end_offset, size) ==
    IF i > end
    THEN [s EXCEPT !.ret = 0]
    ELSE LET m == MapPage(s, i)
         IN IF m.ret = -1
            THEN [m EXCEPT !.copies = Append(m.copies, Copy(i, -1, m.curr, 0, 0))]
            ELSE ReadLoop(ReadPage(m, i, start, end, start_offset, end_offset, size),
                          i + 1, start, end, start_offset, end_offset, size)

RECURSIVE WriteLoop(_, _, _, _, _, _, _)
WriteLoop(s, i, start, end, start_offset, end_offset, size) ==
    IF i > end
    THEN [s EXCEPT !.ret = 0]
    ELSE LET m == MapPage(s, i)
         IN IF m.ret = -1
            THEN [m EXCEPT !.copies = Append(m.copies, Copy(i, -1, m.curr, 0, 0))]
            ELSE WriteLoop(WritePage(m, i, start, end, start_offset, end_offset, size),
                           i + 1, start, end, start_offset, end_offset, size)

(* Mutant: the bounds are checked against the page-aligned size.           *)
OutOfBounds_Aligned(pid, addr, size) ==
    \/ size <= 0
    \/ 0 > addr
    \/ addr >= NoOfPages(mm[pid].size) * PAGE_SIZE
    \/ addr + size > NoOfPages(mm[pid].size) * PAGE_SIZE

(* The out-of-bounds check shared by vm_read and vm_write.                 *)
OutOfBounds(pid, addr, size) ==
    \/ size <= 0
    \/ 0 > addr
    \/ addr >= mm[pid].size
    \/ addr + size > mm[pid].size

(* The loop state on entry: curr = 0, ret not yet decided.                 *)
LoopState(pid, b) ==
    [occ |-> occupied_pages, ptes |-> mm[pid].page_table.ptes, space |-> space,
     buf |-> b, curr |-> 0, ret |-> 1, copies |-> <<>>, fresh |-> {}]

(* A caller buffer of n bytes that nothing has been copied to.             *)
FreshBuf(n) == [k \in 0 .. n - 1 |-> Untouched]

(* The buffers callers write: n bytes alternating from s, and n zeros.     *)
WriteBufs(n) == {[k \in 0 .. n - 1 |-> (s + k) % 2] : s \in Bytes}
ZeroBuf(n) == [k \in 0 .. n - 1 |-> 0]

(* The process sizes of the specification that explores contents: one     *)
(* page, one page and a byte, three pages.                                 *)
DataSizeArgs == {PAGE_SIZE, PAGE_SIZE + 1, 3 * PAGE_SIZE} \cap (1 .. VIRTUAL_SPACE_SIZE)

vm_read(pid, addr, size) ==
    /\ ~fault
    /\ call' = Call("vm_read", pid, addr, size)
    /\ UNCHANGED <<running, allocated_pages>>
    /\ IF OutOfBounds(pid, addr, size)
       THEN /\ ret' = -1
            /\ buf' = FreshBuf(size)
            /\ copies' = <<>>
            /\ fresh' = {}
            /\ UNCHANGED <<mm, occupied_pages, space, fault>>
       ELSE IF mm[pid].page_table.null = 1
       THEN /\ fault' = TRUE
            /\ ret' = -1
            /\ buf' = FreshBuf(size)
            /\ copies' = <<>>
            /\ fresh' = {}
            /\ UNCHANGED <<mm, occupied_pages, space>>
       ELSE LET r == ReadLoop(LoopState(pid, FreshBuf(size)),
                              addr \div PAGE_SIZE, addr \div PAGE_SIZE,
                              (addr + size - 1) \div PAGE_SIZE,
                              addr % PAGE_SIZE, (addr + size) % PAGE_SIZE, size)
            IN /\ ret' = r.ret
               /\ buf' = r.buf
               /\ occupied_pages' = r.occ
               /\ mm' = [mm EXCEPT ![pid].page_table.ptes = r.ptes]
               /\ space' = r.space
               /\ copies' = r.copies
               /\ fresh' = r.fresh
               /\ UNCHANGED fault

vm_write(pid, addr, size, b) ==
    /\ ~fault
    /\ call' = Call("vm_write", pid, addr, size)
    /\ buf' = b
    /\ UNCHANGED <<running, allocated_pages>>
    /\ IF OutOfBounds(pid, addr, size)
       THEN /\ ret' = -1
            /\ copies' = <<>>
            /\ fresh' = {}
            /\ UNCHANGED <<mm, occupied_pages, space, fault>>
       ELSE IF mm[pid].page_table.null = 1
       THEN /\ fault' = TRUE
            /\ ret' = -1
            /\ copies' = <<>>
            /\ fresh' = {}
            /\ UNCHANGED <<mm, occupied_pages, space>>
       ELSE LET r == WriteLoop(LoopState(pid, b),
                               addr \div PAGE_SIZE, addr \div PAGE_SIZE,
                               (addr + size - 1) \div PAGE_SIZE,
                               addr % PAGE_SIZE, (addr + size) % PAGE_SIZE, size)
            IN /\ ret' = r.ret
               /\ occupied_pages' = r.occ
               /\ mm' = [mm EXCEPT ![pid].page_table.ptes = r.ptes]
               /\ space' = r.space
               /\ copies' = r.copies
               /\ fresh' = r.fresh
               /\ UNCHANGED fault

(* Mutant: proc_exit_vm forgets mm[pid].size = 0.                          *)
ExitedMM_KeepSize(m) == [size |-> m.size, page_table |-> NULL]

(* The descriptor proc_exit_vm leaves: size = 0, page_table = NULL.        *)
ExitedMM(m) == [size |-> 0, page_table |-> NULL]

(* Mutant: proc_exit_vm releases no frame.                                 *)
FramesOf_Leak(ptes, n) == {}

(* Mutant: proc_exit_vm unsets occupied_pages[i] for the page index i.     *)
FramesOf_ByIndex(ptes, n) == {x \in 0 .. n - 1 : ptes[x].present = 1}

(* Mutant: the loop of proc_exit_vm stops one entry early.                 *)
FramesOf_SkipLast(ptes, n) == {ptes[i].PFN : i \in {x \in 0 .. n - 2 : ptes[x].present = 1}}

(* The frames proc_exit_vm unsets: PFN of every present entry among the    *)
(* first n of the table.                                                   *)
FramesOf(ptes, n) == {ptes[i].PFN : i \in {x \in 0 .. n - 1 : ptes[x].present = 1}}

proc_exit_vm(pid) ==
    /\ ~fault
    /\ call' = Call("proc_exit_vm", pid, 0, 0)
    /\ buf' = NoBuf
    /\ copies' = <<>>
    /\ fresh' = {}
    /\ UNCHANGED <<space, fault>>
    /\ IF running[pid] = 0
       THEN /\ ret' = -1
            /\ UNCHANGED <<running, mm, occupied_pages, allocated_pages>>
       ELSE LET no_of_pages_allocated == NoOfPages(mm[pid].size)
                freed == FramesOf(mm[pid].page_table.ptes, no_of_pages_allocated)
            IN /\ occupied_pages' = [j \in Frames |-> IF j \in freed THEN 0 ELSE occupied_pages[j]]
               /\ mm' = [mm EXCEPT ![pid] = ExitedMM(mm[pid])]
               /\ allocated_pages' = allocated_pages - no_of_pages_allocated
               /\ running' = [running EXCEPT ![pid] = 0]
               /\ ret' = 0

(* The caller takes the result of the call that returned.                  *)
Return ==
    /\ call # Idle
    /\ call' = Idle
    /\ ret' = 0
    /\ buf' = NoBuf
    /\ wrote' = NoBuf
    /\ copies' = <<>>
    /\ fresh' = {}
    /\ UNCHANGED <<kernel, fault>>

(* The round trip: right after a successful vm_write the caller reads the  *)
(* same range back into a fresh buffer.                                    *)
ReadBack ==
    /\ call.op = "vm_write"
    /\ ret = 0
    /\ vm_read(call.pid, call.addr, call.size)
    /\ wrote' = buf

(* Every operation with every argument; the callers write zeros, so that   *)
(* space keeps its initial contents.                                       *)
Next ==
    \/ \E size \in SizeArgs :
          call = Idle /\ proc_create_vm(size) /\ wrote' = NoBuf
    \/ \E pid \in Pids, r \in RangeArgs :
          call = Idle /\ vm_read(pid, r[1], r[2]) /\ wrote' = NoBuf
    \/ \E pid \in Pids, r \in RangeArgs :
          call = Idle /\ vm_write(pid, r[1], r[2], ZeroBuf(r[2])) /\ wrote' = NoBuf
    \/ \E pid \in Pids :
          call = Idle /\ proc_exit_vm(pid) /\ wrote' = NoBuf
    \/ ReadBack
    \/ Return

Spec == Init /\ [][Next]_vars

(* Processes of three sizes, every range, and buffers of both byte values. *)
NextData ==
    \/ \E size \in DataSizeArgs :
          call = Idle /\ proc_create_vm(size) /\ wrote' = NoBuf
    \/ \E pid \in Pids, r \in RangeArgs :
          call = Idle /\ vm_read(pid, r[1], r[2]) /\ wrote' = NoBuf
    \/ \E pid \in Pids, r \in RangeArgs :
          \E b \in WriteBufs(r[2]) :
             call = Idle /\ vm_write(pid, r[1], r[2], b) /\ wrote' = NoBuf
    \/ \E pid \in Pids :
          call = Idle /\ proc_exit_vm(pid) /\ wrote' = NoBuf
    \/ ReadBack
    \/ Return

SpecData == Init /\ [][NextData]_vars

(***************************************************************************)
(* Properties.                                                             *)
(***************************************************************************)

(* ceil(size / PAGE_SIZE).                                                 *)
CeilDiv(size) == (size + PAGE_SIZE - 1) \div PAGE_SIZE

Running == {p \in Pids : running[p] = 1}

(* The present page-table entries <<pid, page>> of running processes.      *)
Present(p) == {i \in DOMAIN mm[p].page_table.ptes : mm[p].page_table.ptes[i].present = 1}
PresentEntries == {e \in Running \X (0 .. VIRTUAL_SPACE_SIZE) : e[2] \in Present(e[1])}
PFNOf(e) == mm[e[1]].page_table.ptes[e[2]].PFN

OccupiedFrames == {j \in Frames : occupied_pages[j] = 1}
FreeCount == Cardinality(Frames \ OccupiedFrames)

RECURSIVE SumPages(_)
SumPages(S) ==
    IF S = {} THEN 0
    ELSE LET p == CHOOSE x \in S : TRUE
         IN CeilDiv(mm[p].size) + SumPages(S \ {p})

(* C1: no physical frame number is held by two different present           *)
(* page-table entries, of one running process or of two.                   *)
C1_FrameExclusivity ==
    \A e1, e2 \in PresentEntries : e1 # e2 => PFNOf(e1) # PFNOf(e2)

(* Two running processes hold frames, one of them two.                     *)
C1_Witness ==
    /\ \E p, q \in Running : p # q /\ Present(p) # {} /\ Cardinality(Present(q)) >= 2
    /\ call.op = "vm_write"

(* C2: a successful vm_write of a buffer to [addr, addr+len) followed      *)
(* immediately by vm_read of the same range delivers all len bytes, each   *)
(* equal to the byte written.                                              *)
C2_RoundTrip ==
    (call.op = "vm_read" /\ wrote # NoBuf)
        => (ret = 0 /\ \A k \in 0 .. call.size - 1 : buf[k] = wrote[k])

(* C3: frame j is marked occupied iff exactly one present entry of a       *)
(* running process has PFN = j; the occupied frames are as many as the     *)
(* present entries.                                                        *)
C3_OccupancyConsistency ==
    /\ \A j \in Frames :
          occupied_pages[j] = 1 <=> Cardinality({e \in PresentEntries : PFNOf(e) = j}) = 1
    /\ Cardinality(OccupiedFrames) = Cardinality(PresentEntries)

(* A process has exited while another still holds a frame above a free one.*)
C3_Witness ==
    /\ call.op = "proc_exit_vm" /\ ret = 0
    /\ \E j, k \in Frames : j < k /\ occupied_pages[j] = 0 /\ occupied_pages[k] = 1

(* C4: allocated_pages never exceeds KERNEL_SPACE_SIZE / PAGE_SIZE, hence   *)
(* allocated_pages * PAGE_SIZE <= KERNEL_SPACE_SIZE.                        *)
C4_AdmissionBound ==
    /\ allocated_pages <= KERNEL_SPACE_SIZE \div PAGE_SIZE
    /\ allocated_pages * PAGE_SIZE <= KERNEL_SPACE_SIZE

(* A creation of legal size was refused with a slot free: the kernel space *)
(* could not admit it.                                                     *)
C4_Witness ==
    /\ call.op = "proc_create_vm" /\ ret = -1
    /\ call.size > 0 /\ call.size <= VIRTUAL_SPACE_SIZE
    /\ Running # Pids
    /\ allocated_pages > 0

(* C5: allocated_pages is the sum over the running slots of                *)
(* ceil(size / PAGE_SIZE); reads, writes and every failed operation leave  *)
(* it unchanged.                                                           *)
C5_Accounting ==
    /\ [](allocated_pages = SumPages(Running))
    /\ [][(call'.op \in {"vm_read", "vm_write"} \/ ret' = -1)
            => allocated_pages' = allocated_pages]_vars

(* Two processes run, one of a size that is no whole number of pages, and  *)
(* a read has mapped a page.                                               *)
C5_Witness ==
    /\ Cardinality(Running) = 2
    /\ \E p \in Running : mm[p].size % PAGE_SIZE # 0
    /\ call.op = "vm_read" /\ ret = 0
    /\ allocated_pages = SumPages(Running)

(* The bounds claimed for vm_read and vm_write, on the slot's logical size.*)
BadRange(pid, addr, len) ==
    \/ len <= 0
    \/ addr < 0
    \/ addr >= mm[pid].size
    \/ addr + len > mm[pid].size

(* C6: vm_read and vm_write with len <= 0, addr < 0, addr >= size or       *)
(* addr + len > size (the logical size) return failure and leave the       *)
(* kernel state unchanged; the caller's output buffer is not written.      *)
C6_BoundsRejection ==
    [][(call'.op \in {"vm_read", "vm_write"} /\ BadRange(call'.pid, call'.addr, call'.size))
        => /\ ret' = -1
           /\ UNCHANGED kernel
           /\ call'.op = "vm_read" => \A k \in DOMAIN buf' : buf'[k] = Untouched]_vars

(* A range inside the last page but past the logical size was refused to   *)
(* a running process that holds written bytes.                             *)
C6_Witness ==
    /\ call.op \in {"vm_read", "vm_write"} /\ ret = -1
    /\ running[call.pid] = 1
    /\ call.addr >= 0 /\ call.addr < mm[call.pid].size /\ call.size > 0
    /\ call.addr + call.size > mm[call.pid].size
    /\ call.addr + call.size <= CeilDiv(mm[call.pid].size) * PAGE_SIZE
    /\ \E a \in DOMAIN space : space[a] # 0

(* The frames the present entries of slot p map.                           *)
MappedFrames(p) == {mm[p].page_table.ptes[i].PFN : i \in Present(p)}

(* C7: a successful proc_exit_vm(pid) lowers allocated_pages by            *)
(* ceil(size / PAGE_SIZE), frees exactly the frames the process mapped,    *)
(* resets the slot (size 0, null page table, not running) and leaves every *)
(* other slot and frame unchanged.                                         *)
C7_Teardown ==
    [][(call'.op = "proc_exit_vm" /\ ret' = 0)
        => LET pid == call'.pid
           IN /\ allocated_pages' = allocated_pages - CeilDiv(mm[pid].size)
              /\ \A j \in Frames :
                    occupied_pages'[j] = IF j \in MappedFrames(pid) THEN 0 ELSE occupied_pages[j]
              /\ FreeCount' = FreeCount + Cardinality(Present(pid))
              /\ mm'[pid].size = 0
              /\ mm'[pid].page_table = NULL
              /\ running'[pid] = 0
              /\ \A q \in Pids \ {pid} : mm'[q] = mm[q] /\ running'[q] = running[q]]_vars

(* A process that had mapped frames has exited while another, which holds  *)
(* a frame, still runs.                                                    *)
C7_Witness ==
    /\ call.op = "proc_exit_vm" /\ ret = 0
    /\ FreeCount >= 2
    /\ \E q \in Running : Present(q) # {}
    /\ \E j, k \in Frames : j < k /\ occupied_pages[j] = 0 /\ occupied_pages[k] = 1

(* C8: proc_exit_vm, vm_read and vm_write on a slot that is not running    *)
(* return failure, never dereference its null page table and leave the     *)
(* kernel state unchanged.                                                 *)
C8_InactivePid ==
    [][(call'.op \in {"proc_exit_vm", "vm_read", "vm_write"} /\ running[call'.pid] = 0)
        => /\ ret' = -1
           /\ ~fault'
           /\ UNCHANGED kernel]_vars

(* A call on a slot that is not running has failed while another process   *)
(* runs and holds frames.                                                  *)
C8_Witness ==
    /\ call.op \in {"proc_exit_vm", "vm_read", "vm_write"} /\ ret = -1
    /\ running[call.pid] = 0
    /\ \E q \in Running : Present(q) # {}

(* The failure conditions claimed for proc_create_vm.                      *)
Rejected(size) ==
    \/ size <= 0
    \/ size > VIRTUAL_SPACE_SIZE
    \/ allocated_pages + CeilDiv(size) > KERNEL_SPACE_SIZE \div PAGE_SIZE
    \/ \A p \in Pids : running[p] = 1

(* C9: proc_create_vm(size) fails exactly when size <= 0, size >           *)
(* VIRTUAL_SPACE_SIZE, the pages do not fit the kernel space or every slot *)
(* runs; a failure leaves the kernel state unchanged, every other call     *)
(* succeeds.                                                               *)
C9_CreateRejection ==
    [][call'.op = "proc_create_vm"
        => /\ ret' = -1 <=> Rejected(call'.size)
           /\ ret' = -1 => UNCHANGED kernel
           /\ ~Rejected(call'.size) => ret' \in Pids]_vars

(* A creation was refused only because every slot runs.                    *)
C9_Witness ==
    /\ call.op = "proc_create_vm" /\ ret = -1
    /\ call.size > 0 /\ call.size <= VIRTUAL_SPACE_SIZE
    /\ allocated_pages + CeilDiv(call.size) <= KERNEL_SPACE_SIZE \div PAGE_SIZE
    /\ Running = Pids

(* C10: a successful proc_create_vm(size) returns the lowest slot that was *)
(* not running, gives it the size and a page table of ceil(size/PAGE_SIZE) *)
(* unmapped entries, raises allocated_pages by as much and changes neither *)
(* the frame occupancy nor another slot.                                   *)
C10_CreateEffect ==
    [][(call'.op = "proc_create_vm" /\ ret' # -1)
        => LET pid == ret'
               n == CeilDiv(call'.size)
           IN /\ pid \in Pids /\ running[pid] = 0
              /\ \A q \in Pids : q < pid => running[q] = 1
              /\ running'[pid] = 1
              /\ mm'[pid].size = call'.size
              /\ mm'[pid].page_table.null = 0
              /\ DOMAIN mm'[pid].page_table.ptes = 0 .. n - 1
              /\ \A i \in 0 .. n - 1 :
                    /\ mm'[pid].page_table.ptes[i].PFN = -1
                    /\ mm'[pid].page_table.ptes[i].present = 0
              /\ allocated_pages' = allocated_pages + n
              /\ occupied_pages' = occupied_pages
              /\ space' = space
              /\ \A q \in Pids \ {pid} : mm'[q] = mm[q] /\ running'[q] = running[q]]_vars

(* Slot 0 was taken again, by a process of less than a page more than      *)
(* whole pages, while slot 1 runs and holds a frame.                       *)
C10_Witness ==
    /\ call.op = "proc_create_vm" /\ ret = 0
    /\ call.size % PAGE_SIZE # 0
    /\ \E q \in Running : q > 0 /\ Present(q) # {}

(* The pages of the range [addr, addr + len).                              *)
RangePages(addr, len) == (addr \div PAGE_SIZE) .. ((addr + len - 1) \div PAGE_SIZE)

(* The present pages of slot p in the descriptors m.                       *)
PresentIn(m, p) == {i \in DOMAIN m[p].page_table.ptes : m[p].page_table.ptes[i].present = 1}

(* A vm_read or vm_write step that returns 0.                              *)
TransferOk == call'.op \in {"vm_read", "vm_write"} /\ ret' = 0

(* C11: a successful vm_read or vm_write on [addr, addr+len) makes present *)
(* exactly the pages of the range that were unmapped, lowers the free-frame *)
(* count by their number and leaves every other entry, every other         *)
(* process, all sizes, running flags and allocated_pages unchanged.        *)
C11_LazyMapping ==
    [][TransferOk
        => LET pid == call'.pid
               pages == RangePages(call'.addr, call'.size)
               new == pages \ Present(pid)
           IN /\ PresentIn(mm', pid) = Present(pid) \cup pages
              /\ FreeCount' = FreeCount - Cardinality(new)
              /\ \A i \in DOMAIN mm[pid].page_table.ptes \ new :
                    mm'[pid].page_table.ptes[i] = mm[pid].page_table.ptes[i]
              /\ DOMAIN mm'[pid].page_table.ptes = DOMAIN mm[pid].page_table.ptes
              /\ mm'[pid].size = mm[pid].size
              /\ \A q \in Pids \ {pid} : mm'[q] = mm[q]
              /\ running' = running
              /\ allocated_pages' = allocated_pages]_vars

(* The scaled demonstration: a read of a range that ends inside the last   *)
(* page of a fresh process mapped all its pages, more than one, while      *)
(* another process runs; the frames it did not take are free.              *)
C11_Witness ==
    /\ call.op = "vm_read" /\ ret = 0 /\ call.addr = 0
    /\ call.size % PAGE_SIZE # 0
    /\ Cardinality(Running) = 2
    /\ fresh = RangePages(call.addr, call.size)
    /\ Cardinality(fresh) >= 2
    /\ FreeCount = NumFrames - Cardinality(fresh)

(* C12: a vm_read or vm_write of a range whose pages are all mapped takes  *)
(* no frame and changes no PFN; an entry that is present stays present     *)
(* with its PFN through every step but the exit of its own process.        *)
C12_MappingStable ==
    [][/\ (TransferOk /\ RangePages(call'.addr, call'.size) \subseteq Present(call'.pid))
            => (occupied_pages' = occupied_pages /\ mm' = mm)
       /\ \A p \in Running : \A i \in Present(p) :
             \/ call'.op = "proc_exit_vm" /\ call'.pid = p /\ ret' = 0
             \/ /\ running'[p] = 1
                /\ i \in Present(p)'
                /\ mm'[p].page_table.ptes[i].PFN = mm[p].page_table.ptes[i].PFN]_vars

(* The read-back of a range of two pages, mapped by the write before it,   *)
(* mapped nothing, while the other process holds a frame.                  *)
C12_Witness ==
    /\ call.op = "vm_read" /\ ret = 0 /\ wrote # NoBuf
    /\ fresh = {}
    /\ Cardinality(RangePages(call.addr, call.size)) >= 2
    /\ \E q \in Running \ {call.pid} : Present(q) # {}

(* The k lowest elements of a set of frames.                               *)
RECURSIVE Lowest(_, _)
Lowest(S, k) ==
    IF k = 0 \/ S = {} THEN {} ELSE {Min(S)} \cup Lowest(S \ {Min(S)}, k - 1)

(* C13: the pages a vm_read or vm_write maps take the lowest frames that   *)
(* were unoccupied, in ascending page order: each new page gets the lowest *)
(* frame left after the new pages below it.                                *)
C13_FirstFit ==
    [][TransferOk
        => LET pid == call'.pid
               new == RangePages(call'.addr, call'.size) \ Present(pid)
               free == Frames \ OccupiedFrames
           IN \A i \in new :
                 LET below == Cardinality({x \in new : x < i})
                 IN mm'[pid].page_table.ptes[i].PFN = Min(free \ Lowest(free, below))]_vars

(* A call mapped two pages onto the two lowest frames, which an exited     *)
(* process had released: a frame above them is still held by the other     *)
(* process.                                                                *)
C13_Witness ==
    /\ call.op \in {"vm_read", "vm_write"} /\ ret = 0
    /\ Cardinality(fresh) >= 2
    /\ \E q \in Running \ {call.pid} :
          \E j \in MappedFrames(q) : \A k \in MappedFrames(call.pid) : k < j

(* C14: a slot runs iff its size is positive iff its page table is not     *)
(* null; the page table of a running slot has ceil(size / PAGE_SIZE)       *)
(* entries.                                                                *)
C14_SlotState ==
    \A p \in Pids :
        /\ running[p] = 1 <=> mm[p].size > 0
        /\ running[p] = 1 <=> mm[p].page_table # NULL
        /\ running[p] \in {0, 1}
        /\ running[p] = 1 =>
              DOMAIN mm[p].page_table.ptes = 0 .. CeilDiv(mm[p].size) - 1

(* Slot 0 has exited while slot 1 runs with a size that is no whole number *)
(* of pages.                                                               *)
C14_Witness ==
    /\ call.op = "proc_exit_vm" /\ ret = 0 /\ call.pid = 0
    /\ running[0] = 0 /\ running[1] = 1
    /\ mm[1].size % PAGE_SIZE # 0

(* C15: when no process runs, no frame is occupied, the free-frame count   *)
(* is KERNEL_SPACE_SIZE / PAGE_SIZE and allocated_pages is 0.              *)
C15_FullRelease ==
    Running = {}
        => /\ \A j \in Frames : occupied_pages[j] = 0
           /\ FreeCount = KERNEL_SPACE_SIZE \div PAGE_SIZE
           /\ allocated_pages = 0

(* The last running process, which had mapped pages and written them, has  *)
(* exited.                                                                 *)
C15_Witness ==
    /\ Running = {}
    /\ call.op = "proc_exit_vm" /\ ret = 0
    /\ \E a \in DOMAIN space : space[a] # 0

(* The byte count the claim gives for the copy of page i of the range      *)
(* [addr, addr + len).                                                     *)
ClaimedCount(i, addr, len) ==
    LET start == addr \div PAGE_SIZE
        end == (addr + len - 1) \div PAGE_SIZE
    IN IF start = end THEN len
       ELSE IF i = start THEN PAGE_SIZE - (addr % PAGE_SIZE)
       ELSE IF i = end THEN (addr + len) % PAGE_SIZE
       ELSE PAGE_SIZE

(* C16: in every successful vm_read or vm_write the per-page copies (len   *)
(* bytes for a single page; PAGE_SIZE - start_offset, PAGE_SIZE per middle *)
(* page and end_offset bytes on several pages) use buffer segments that    *)
(* are contiguous, do not overlap and cover exactly positions [0, len).    *)
C16_CopyCoverage ==
    (call.op \in {"vm_read", "vm_write"} /\ ret = 0)
        => /\ Len(copies) = Cardinality(RangePages(call.addr, call.size))
           /\ \A k \in 1 .. Len(copies) :
                 /\ copies[k].page = call.addr \div PAGE_SIZE + k - 1
                 /\ copies[k].n = ClaimedCount(copies[k].page, call.addr, call.size)
           /\ copies[1].boff = 0
           /\ \A k \in 1 .. Len(copies) - 1 : copies[k + 1].boff = copies[k].boff + copies[k].n
           /\ copies[Len(copies)].boff + copies[Len(copies)].n = call.size

(* C17: every page index vm_read or vm_write visits after the bounds check *)
(* lies inside the process's page table of ceil(size / PAGE_SIZE) entries, *)
(* and every copy stays inside its frame and inside the physical space.    *)
C17_AccessBounds ==
    (call.op \in {"vm_read", "vm_write"} /\ ~BadRange(call.pid, call.addr, call.size))
        => /\ copies # <<>>
           /\ \A k \in 1 .. Len(copies) :
                 /\ 0 <= copies[k].page
                 /\ copies[k].page < CeilDiv(mm[call.pid].size)
                 /\ copies[k].page \in DOMAIN mm[call.pid].page_table.ptes
                 /\ copies[k].n >= 0
                 /\ copies[k].pfn # -1
                       => /\ copies[k].pfn \in Frames
                          /\ PAGE_SIZE * copies[k].pfn <= copies[k].poff
                          /\ copies[k].poff + copies[k].n <= PAGE_SIZE * (copies[k].pfn + 1)
                          /\ 0 <= copies[k].poff
                          /\ copies[k].poff + copies[k].n <= KERNEL_SPACE_SIZE

(* A transfer reached the last logical byte of a process whose size is no  *)
(* whole number of pages, on its last page, held in the last frame.        *)
C17_Witness ==
    /\ call.op \in {"vm_read", "vm_write"} /\ ret = 0
    /\ mm[call.pid].size % PAGE_SIZE # 0
    /\ call.addr + call.size = mm[call.pid].size
    /\ \E k \in 1 .. Len(copies) :
          /\ copies[k].page = CeilDiv(mm[call.pid].size) - 1
          /\ copies[k].pfn = NumFrames - 1
          /\ copies[k].n > 0

(* The pages of running slot p that have no frame yet.                     *)
Unmapped(p) == DOMAIN mm[p].page_table.ptes \ Present(p)

(* C18: occupied frames <= allocated_pages <= KERNEL_SPACE_SIZE / PAGE_SIZE*)
(* in every state, so a first-fit scan that needs a frame finds one: every *)
(* vm_read / vm_write of a running process inside its bounds returns 0,    *)
(* and no call stops on a missing frame with part of its range mapped.     *)
C18_NoExhaustion ==
    /\ Cardinality(OccupiedFrames) <= allocated_pages
    /\ allocated_pages <= KERNEL_SPACE_SIZE \div PAGE_SIZE
    /\ \A p \in Running : Cardinality(Unmapped(p)) <= FreeCount
    /\ (call.op \in {"vm_read", "vm_write"} /\ running[call.pid] = 1
          /\ ~BadRange(call.pid, call.addr, call.size))
         => /\ ret = 0
            /\ RangePages(call.addr, call.size) \subseteq Present(call.pid)
    /\ call.op \in {"vm_read", "vm_write"}
         => \A k \in 1 .. Len(copies) : copies[k].pfn # -1

(* A transfer took the last free frame while every frame was promised.     *)
C18_Witness ==
    /\ call.op \in {"vm_read", "vm_write"} /\ ret = 0
    /\ fresh # {}
    /\ FreeCount = 0
    /\ allocated_pages = NumFrames
    /\ Cardinality(Running) = 2

(* The frames the present entries of slot p map in the mm array m.         *)
MappedFramesIn(m, p) == {m[p].page_table.ptes[i].PFN : i \in PresentIn(m, p)}

(* C19: a vm_write by p changes physical bytes only inside frames that p's *)
(* page table maps; vm_read, proc_create_vm and proc_exit_vm change no     *)
(* byte; so no operation on p changes the mappings of another running q or *)
(* the bytes of the frames q has mapped (what a vm_read on q returns).     *)
C19_Isolation ==
    [][/\ \A a \in DOMAIN space :
             space'[a] # space[a]
                 => /\ call'.op = "vm_write"
                    /\ a \div PAGE_SIZE \in MappedFramesIn(mm', call'.pid)
       /\ call'.op \in {"vm_read", "proc_create_vm", "proc_exit_vm"} => space' = space
       /\ \A q \in Running :
             call'.pid # q
                 => /\ running'[q] = 1
                    /\ mm'[q] = mm[q]
                    /\ \A a \in DOMAIN space :
                          a \div PAGE_SIZE \in MappedFrames(q) => space'[a] = space[a]]_vars

(* A write stored a nonzero byte in a frame of its process while another   *)
(* running process holds a frame with a nonzero byte of its own.           *)
C19_Witness ==
    /\ call.op = "vm_write" /\ ret = 0
    /\ \E k \in 1 .. Len(copies) :
          /\ copies[k].n > 0
          /\ buf[copies[k].boff] = 1
          /\ space[copies[k].poff] = 1
    /\ \E q \in Running \ {call.pid} :
          \E a \in DOMAIN space : a \div PAGE_SIZE \in MappedFrames(q) /\ space[a] = 1

====
